---- MODULE Spec2Model ----
(***************************************************************************)
(* Model of src/ABB.py: a binary search tree (ABB) of Registro objects     *)
(* keyed by CPF, each node carrying the position of the record in an       *)
(* external list (EDL).                                                    *)
(*                                                                         *)
(* Python objects are references, so the model keeps two heaps: `regs`     *)
(* (Registro objects) and `nos` (NoABB objects).  A tree is the address of *)
(* its root node; a traversal is a sequence of Registro addresses.         *)
(* Objects no longer referenced are released at the end of each operation, *)
(* as CPython's reference counting does.                                   *)
(***************************************************************************)
EXTENDS Integers, Sequences, FiniteSets, TLC

VARIABLES regs, nos, raiz, edl, hist, saida

vars == <<regs, nos, raiz, edl, hist, saida>>

\* ------------------------------------------------------------------ bounds
\* Number of distinct CPFs the caller works with in the general specifications.
NumCpfs == 4
\* Largest position the caller passes to inserir where positions are free;
\* the smallest is -MaxPos - 1.
MaxPos == 2
\* Largest number of nodes a tree is grown to.
MaxNos == 4

\* ----------------------------------------------------------- value domains
\* Python's None.
None == 0

\* CPFs are strings of decimal digits; a string is the sequence of its digits.
ExemploCpfs == << <<5,0>>, <<3,0>>, <<7,0>>, <<2,0>>, <<4,0>> >>

CpfUniverso == ExemploCpfs \o << <<1,0,0>>, <<6>>, <<3,5>> >>

CPFS == { CpfUniverso[i] : i \in 1..NumCpfs }

Nomes == {"Lucas", "Ana"}

Posicoes == (0 - MaxPos - 1)..MaxPos

Arvores == {"abb", "copia"}

Min(a, b) == IF a <= b THEN a ELSE b

\* The elements of sequence s.
Elems(s) == { s[i] : i \in DOMAIN s }

\* Python's str.__lt__: lexicographic order, a proper prefix being smaller.
StrLt(a, b) ==
    \E i \in 1..(Min(Len(a), Len(b)) + 1) :
        /\ \A j \in 1..(i - 1) : a[j] = b[j]
        /\ \/ i > Len(a) /\ i <= Len(b)
           \/ i <= Len(a) /\ i <= Len(b) /\ a[i] < b[i]

\* ------------------------------------------------------------------ Registro
\* Registro.__init__: a new record is not deleted.
Registro(cpf, nome, data_nasc) ==
    [cpf |-> cpf, nome |-> nome, data_nasc |-> data_nasc, deletado |-> FALSE]

\* Registro.__lt__ on two Registro objects of heap R.
RegLt(R, a, b) == StrLt(R[a].cpf, R[b].cpf)

\* `a > b` on Registro objects: the class defines no __gt__, so Python
\* evaluates the reflected b.__lt__(a).
RegGt(R, a, b) == RegLt(R, b, a)

\* Registro.__str__.
RegStr(r) == <<"CPF: ", r.cpf, ", Nome: ", r.nome, ", Nascimento: ", r.data_nasc>>

\* -------------------------------------------------------------------- NoABB
\* NoABB.__init__: the node keeps the reference it is given.
NoABB(registro, posicao) ==
    [registro |-> registro, posicao |-> posicao, esq |-> None, dir |-> None]

\* The address a newly created object receives.  The program never observes
\* an address (it compares references with None only), so any free address
\* models the allocator: the preferred one when it is free, else the lowest
\* free one.
Novo(H, pref) ==
    LET livres == (1..(Cardinality(DOMAIN H) + 1)) \ DOMAIN H
    IN  IF pref \notin DOMAIN H THEN pref
        ELSE CHOOSE n \in livres : \A m \in livres : n <= m

\* The address preferred for the copy of the object at address a.
EnderecoDaCopia(a) == a + 100

\* Heap H with a new object v stored at address n.
Alocar(H, n, v) == [x \in DOMAIN H \cup {n} |-> IF x = n THEN v ELSE H[x]]

\* ------------------------------------------------------------ ABB: inserir
\* ABB._inserir_recursivo(no, registro, posicao) on node heap H; the result is
\* the heap after the call and the node returned.
RECURSIVE _inserir_recursivo(_, _, _, _, _)

\* Mutant: an equal key overwrites the node's record and position.
_inserir_sobrescreve(H, R, no, registro, posicao) ==
    IF no = None
    THEN LET n == Novo(H, registro)
         IN  [h |-> Alocar(H, n, NoABB(registro, posicao)), no |-> n]
    ELSE IF RegLt(R, registro, H[no].registro)
    THEN LET r == _inserir_recursivo(H, R, H[no].esq, registro, posicao)
         IN  [h |-> [r.h EXCEPT ![no].esq = r.no], no |-> no]
    ELSE IF RegGt(R, registro, H[no].registro)
    THEN LET r == _inserir_recursivo(H, R, H[no].dir, registro, posicao)
         IN  [h |-> [r.h EXCEPT ![no].dir = r.no], no |-> no]
    ELSE [h |-> [H EXCEPT ![no].registro = registro, ![no].posicao = posicao],
          no |-> no]

_inserir_recursivo(H, R, no, registro, posicao) ==
    IF no = None
    THEN LET n == Novo(H, registro)
         IN  [h |-> Alocar(H, n, NoABB(registro, posicao)), no |-> n]
    ELSE IF RegLt(R, registro, H[no].registro)
    THEN LET r == _inserir_recursivo(H, R, H[no].esq, registro, posicao)
         IN  [h |-> [r.h EXCEPT ![no].esq = r.no], no |-> no]
    ELSE IF RegGt(R, registro, H[no].registro)
    THEN LET r == _inserir_recursivo(H, R, H[no].dir, registro, posicao)
         IN  [h |-> [r.h EXCEPT ![no].dir = r.no], no |-> no]
    ELSE [h |-> H, no |-> no]

\* ------------------------------------------------------------- ABB: buscar
\* ABB._buscar_recursivo(no, cpf): the node holding cpf, or None.
RECURSIVE _buscar_recursivo(_, _, _, _)
_buscar_recursivo(H, R, no, cpf) ==
    IF no = None THEN None
    ELSE IF cpf = R[H[no].registro].cpf THEN no
    ELSE IF StrLt(cpf, R[H[no].registro].cpf)
    THEN _buscar_recursivo(H, R, H[no].esq, cpf)
    ELSE _buscar_recursivo(H, R, H[no].dir, cpf)

\* ABB.buscar(cpf) on the tree rooted at rz.
buscar(H, R, rz, cpf) == _buscar_recursivo(H, R, rz, cpf)

\* ------------------------------------------------------------ ABB: remover
\* ABB._menor_no(no): the leftmost node below no.
RECURSIVE _menor_no(_, _)

\* Mutant: the right child itself is taken for the successor.
_menor_no_sem_descer(H, no) == no

_menor_no(H, no) == IF H[no].esq # None THEN _menor_no(H, H[no].esq) ELSE no

\* Mutant: the successor's position is not copied.
PromoverSoRegistro(H, no, sucessor) ==
    [H EXCEPT ![no].registro = H[sucessor].registro]

\* Mutant: the successor's record is not copied.
PromoverSoPosicao(H, no, sucessor) ==
    [H EXCEPT ![no].posicao = H[sucessor].posicao]

\* The payload assignments of the two-children case (lines 107-108).
PromoverSucessor(H, no, sucessor) ==
    [H EXCEPT ![no].registro = H[sucessor].registro,
              ![no].posicao = H[sucessor].posicao]

\* ABB._remover_recursivo(no, cpf) on node heap H.
RECURSIVE _remover_recursivo(_, _, _, _)

\* Mutant: a key that is not smaller than the node's is taken for equal.
_remover_sem_maior(H, R, no, cpf) ==
    IF no = None THEN [h |-> H, no |-> None]
    ELSE IF StrLt(cpf, R[H[no].registro].cpf)
    THEN LET r == _remover_recursivo(H, R, H[no].esq, cpf)
         IN  [h |-> [r.h EXCEPT ![no].esq = r.no], no |-> no]
    ELSE IF H[no].esq = None THEN [h |-> H, no |-> H[no].dir]
    ELSE IF H[no].dir = None THEN [h |-> H, no |-> H[no].esq]
    ELSE LET sucessor == _menor_no(H, H[no].dir)
             H1 == PromoverSucessor(H, no, sucessor)
             r == _remover_recursivo(H1, R, H1[no].dir, R[H1[sucessor].registro].cpf)
         IN  [h |-> [r.h EXCEPT ![no].dir = r.no], no |-> no]

_remover_recursivo(H, R, no, cpf) ==
    IF no = None THEN [h |-> H, no |-> None]
    ELSE IF StrLt(cpf, R[H[no].registro].cpf)
    THEN LET r == _remover_recursivo(H, R, H[no].esq, cpf)
         IN  [h |-> [r.h EXCEPT ![no].esq = r.no], no |-> no]
    ELSE IF StrLt(R[H[no].registro].cpf, cpf)
    THEN LET r == _remover_recursivo(H, R, H[no].dir, cpf)
         IN  [h |-> [r.h EXCEPT ![no].dir = r.no], no |-> no]
    ELSE IF H[no].esq = None THEN [h |-> H, no |-> H[no].dir]
    ELSE IF H[no].dir = None THEN [h |-> H, no |-> H[no].esq]
    ELSE LET sucessor == _menor_no(H, H[no].dir)
             H1 == PromoverSucessor(H, no, sucessor)
             r == _remover_recursivo(H1, R, H1[no].dir, R[H1[sucessor].registro].cpf)
         IN  [h |-> [r.h EXCEPT ![no].dir = r.no], no |-> no]

\* ------------------------------------------------------------- ABB: limpar
\* ABB._limpar_pos_ordem(no): unlinks the children of every node below no, in
\* post-order; the call itself returns None.
RECURSIVE _limpar_pos_ordem(_, _)
_limpar_pos_ordem(H, no) ==
    IF no = None THEN H
    ELSE LET H1 == _limpar_pos_ordem(H, H[no].esq)
             H2 == _limpar_pos_ordem([H1 EXCEPT ![no].esq = None], H[no].dir)
         IN  [H2 EXCEPT ![no].dir = None]

\* --------------------------------------------------------------- percursos
\* ABB._pre_ordem(no): the Registro references, node first.
RECURSIVE _pre_ordem(_, _)
_pre_ordem(H, no) ==
    IF no = None THEN <<>>
    ELSE <<H[no].registro>> \o _pre_ordem(H, H[no].esq) \o _pre_ordem(H, H[no].dir)

\* ABB._in_ordem(no).
RECURSIVE _in_ordem(_, _)

\* Mutant: the right subtree is visited before the left one.
_in_ordem_invertido(H, no) ==
    IF no = None THEN <<>>
    ELSE _in_ordem(H, H[no].dir) \o <<H[no].registro>> \o _in_ordem(H, H[no].esq)

_in_ordem(H, no) ==
    IF no = None THEN <<>>
    ELSE _in_ordem(H, H[no].esq) \o <<H[no].registro>> \o _in_ordem(H, H[no].dir)

\* ABB._pos_ordem(no).
RECURSIVE _pos_ordem(_, _)
_pos_ordem(H, no) ==
    IF no = None THEN <<>>
    ELSE _pos_ordem(H, H[no].esq) \o _pos_ordem(H, H[no].dir) \o <<H[no].registro>>

\* The while loop of percurso_largura: fila is the deque, resultado the list.
RECURSIVE LacoLargura(_, _, _)

\* Mutant: the right child is enqueued before the left one.
LacoLarguraDireitaPrimeiro(H, fila, resultado) ==
    IF fila = <<>> THEN resultado
    ELSE LET no == Head(fila)
             f1 == Tail(fila)
             f2 == IF H[no].dir # None THEN Append(f1, H[no].dir) ELSE f1
             f3 == IF H[no].esq # None THEN Append(f2, H[no].esq) ELSE f2
         IN  LacoLargura(H, f3, Append(resultado, H[no].registro))

LacoLargura(H, fila, resultado) ==
    IF fila = <<>> THEN resultado
    ELSE LET no == Head(fila)
             f1 == Tail(fila)
             f2 == IF H[no].esq # None THEN Append(f1, H[no].esq) ELSE f1
             f3 == IF H[no].dir # None THEN Append(f2, H[no].dir) ELSE f2
         IN  LacoLargura(H, f3, Append(resultado, H[no].registro))

\* ABB.percurso_largura() on the tree rooted at rz.
percurso_largura(H, rz) ==
    IF rz = None THEN <<>> ELSE LacoLargura(H, <<rz>>, <<>>)

percurso_pre_ordem(H, rz) == _pre_ordem(H, rz)

percurso_in_ordem(H, rz) == _in_ordem(H, rz)

percurso_pos_ordem(H, rz) == _pos_ordem(H, rz)

\* ------------------------------------------------------------- ABB: copiar
\* copy.deepcopy of a Registro: a new object with equal fields (all of them
\* immutable values).  The result is the heap and the new object.
DeepCopy(R, r) ==
    LET n == Novo(R, EnderecoDaCopia(r))
    IN  [r |-> Alocar(R, n, R[r]), reg |-> n]

\* ABB._copiar_subarvore(no): the new node is created first, with a deep copy
\* of the record, then the left and the right subtree are copied.
RECURSIVE _copiar_subarvore(_, _, _)
_copiar_subarvore(H, R, no) ==
    IF no = None THEN [h |-> H, r |-> R, no |-> None]
    ELSE LET c == DeepCopy(R, H[no].registro)
             R1 == c.r
             novo == Novo(H, EnderecoDaCopia(no))
             H1 == Alocar(H, novo, NoABB(c.reg, H[no].posicao))
             e == _copiar_subarvore(H1, R1, H[no].esq)
             H2 == [e.h EXCEPT ![novo].esq = e.no]
             d == _copiar_subarvore(H2, e.r, H[no].dir)
         IN  [h |-> [d.h EXCEPT ![novo].dir = d.no], r |-> d.r, no |-> novo]

\* ------------------------------------------------------ reference counting
\* The nodes reachable from node no.
RECURSIVE NosDe(_, _)
NosDe(H, no) ==
    IF no = None THEN {}
    ELSE {no} \cup NosDe(H, H[no].esq) \cup NosDe(H, H[no].dir)

\* The nodes reachable from the roots rz (a function from trees to roots).
NosVivos(H, rz) == UNION { NosDe(H, rz[t]) : t \in DOMAIN rz }

\* Heap H without the nodes no root reaches.
ColetarNos(H, rz) == [n \in NosVivos(H, rz) |-> H[n]]

\* The Registro objects node heap H or the caller's list E refers to.
RegsVivos(H, E) == { H[n].registro : n \in DOMAIN H } \cup { E[i] : i \in DOMAIN E }

\* Heap R without the records nothing refers to.
ColetarRegs(R, H, E) == [r \in RegsVivos(H, E) \cap DOMAIN R |-> R[r]]

\* -------------------------------------------------------- consultar_por_cpf
\* Python's list indexing: a negative index counts from the end.
IndiceValido(E, i) == 0 - Len(E) <= i /\ i < Len(E)

ItemDe(E, i) == IF i < 0 THEN E[Len(E) + i + 1] ELSE E[i + 1]

\* Mutant: the deletion flag is read from the tree's own record.
consultar_registro_do_no(H, R, rz, E, cpf) ==
    LET no == buscar(H, R, rz, cpf)
    IN  IF no = None THEN <<"Registro não encontrado.">>
        ELSE IF ~IndiceValido(E, H[no].posicao) THEN <<"IndexError">>
        ELSE LET registro == ItemDe(E, H[no].posicao)
             IN  IF R[H[no].registro].deletado THEN <<"Registro apagado.">>
                 ELSE <<"Registro encontrado:", RegStr(R[registro])>>

\* consultar_por_cpf(abb, edl, cpf): the lines the call prints,
\* or the exception that leaves it.
consultar_por_cpf(H, R, rz, E, cpf) ==
    LET no == buscar(H, R, rz, cpf)
    IN  IF no = None THEN <<"Registro não encontrado.">>
        ELSE IF ~IndiceValido(E, H[no].posicao) THEN <<"IndexError">>
        ELSE LET registro == ItemDe(E, H[no].posicao)
             IN  IF R[registro].deletado THEN <<"Registro apagado.">>
                 ELSE <<"Registro encontrado:", RegStr(R[registro])>>

\* ------------------------------------------------------------------ history
\* hist[t] maps every CPF inserted into tree t and not removed since to the
\* position passed by the insert call that added it.
HistInserir(h, cpf, p) ==
    IF cpf \in DOMAIN h THEN h
    ELSE [c \in DOMAIN h \cup {cpf} |-> IF c = cpf THEN p ELSE h[c]]

HistRemover(h, cpf) == [c \in DOMAIN h \ {cpf} |-> h[c]]

\* ----------------------------------------------------------------- actions
\* Number of nodes of tree t.
Tamanho(t) == Cardinality(NosDe(nos, raiz[t]))

\* Whether an insertion of registro keeps tree t within MaxNos nodes.
Cabe(t, registro) ==
    \/ Tamanho(t) < MaxNos
    \/ buscar(nos, regs, raiz[t], regs[registro].cpf) # None

\* abb.inserir(registro, posicao) on tree t, registro being an object the
\* caller holds.
Inserir(t, registro, posicao) ==
    /\ t \in DOMAIN raiz
    /\ registro \in DOMAIN regs
    /\ hist' = [hist EXCEPT ![t] = HistInserir(@, regs[registro].cpf, posicao)]
    /\ LET res == _inserir_recursivo(nos, regs, raiz[t], registro, posicao)
       IN  /\ nos' = res.h
           /\ raiz' = [raiz EXCEPT ![t] = res.no]
    /\ UNCHANGED <<regs, edl, saida>>

\* abb.remover(cpf) on tree t.
Remover(t, cpf) ==
    /\ t \in DOMAIN raiz
    /\ hist' = [hist EXCEPT ![t] = HistRemover(@, cpf)]
    /\ LET res == _remover_recursivo(nos, regs, raiz[t], cpf)
           rz == [raiz EXCEPT ![t] = res.no]
           H == ColetarNos(res.h, rz)
       IN  /\ raiz' = rz
           /\ nos' = H
           /\ regs' = ColetarRegs(regs, H, edl)
    /\ UNCHANGED <<edl, saida>>

\* abb.limpar() on tree t.
Limpar(t) ==
    /\ t \in DOMAIN raiz
    /\ LET rz == [raiz EXCEPT ![t] = None]
           H == ColetarNos(_limpar_pos_ordem(nos, raiz[t]), rz)
       IN  /\ raiz' = rz
           /\ nos' = H
           /\ regs' = ColetarRegs(regs, H, edl)
    /\ hist' = [hist EXCEPT ![t] = <<>>]
    /\ UNCHANGED <<edl, saida>>

\* copia = abb.copiar(), the name `copia` being unbound.
Copiar ==
    /\ "copia" \notin DOMAIN raiz
    /\ LET res == _copiar_subarvore(nos, regs, raiz["abb"])
           rz == [t \in Arvores |-> IF t = "copia" THEN res.no ELSE raiz["abb"]]
           H == ColetarNos(res.h, rz)
       IN  /\ raiz' = rz
           /\ nos' = H
           /\ regs' = ColetarRegs(res.r, H, edl)
    /\ hist' = [t \in Arvores |-> hist["abb"]]
    /\ UNCHANGED <<edl, saida>>

\* del copia: the copy is released.
Descartar ==
    /\ "copia" \in DOMAIN raiz
    /\ LET rz == [t \in {"abb"} |-> raiz[t]]
           H == ColetarNos(nos, rz)
       IN  /\ raiz' = rz
           /\ nos' = H
           /\ regs' = ColetarRegs(regs, H, edl)
    /\ hist' = [t \in {"abb"} |-> hist[t]]
    /\ UNCHANGED <<edl, saida>>

\* registro.nome = nome, on any live Registro object.
MutarNome(registro, nome) ==
    /\ registro \in DOMAIN regs
    /\ regs[registro].nome # nome
    /\ regs' = [regs EXCEPT ![registro].nome = nome]
    /\ UNCHANGED <<nos, raiz, edl, hist, saida>>

\* registro.deletado = True: the external store marks a record deleted.
Apagar(registro) ==
    /\ registro \in DOMAIN regs
    /\ ~regs[registro].deletado
    /\ regs' = [regs EXCEPT ![registro].deletado = TRUE]
    /\ UNCHANGED <<nos, raiz, edl, hist, saida>>

\* consultar_por_cpf(t, edl, cpf).
Consultar(t, cpf) ==
    /\ t \in DOMAIN raiz
    /\ saida' = consultar_por_cpf(nos, regs, raiz[t], edl, cpf)
    /\ UNCHANGED <<regs, nos, raiz, edl, hist>>

\* ---------------------------------------------------------- specifications
\* The caller's list: one record per CPF, then a second record object with
\* the first CPF and another name.
EdlInicial(cpfs) ==
    [i \in 1..(Len(cpfs) + 1) |->
        IF i <= Len(cpfs) THEN Registro(cpfs[i], "Lucas", "2005-07-10")
        ELSE Registro(cpfs[1], "Ana", "2002-03-15")]

\* ABB(): an empty tree; the caller's records are built and listed in edl.
InitCom(cpfs) ==
    /\ regs = EdlInicial(cpfs)
    /\ edl = [i \in 1..(Len(cpfs) + 1) |-> i]
    /\ nos = <<>>
    /\ raiz = [t \in {"abb"} |-> None]
    /\ hist = [t \in {"abb"} |-> <<>>]
    /\ saida = <<>>

Init == InitCom(SubSeq(CpfUniverso, 1, NumCpfs))

\* The loop of ABB.__init__(dados): the tree after the first k records of list
\* E were inserted, each with its index as position.
RECURSIVE ArvoreDe(_, _, _)
ArvoreDe(R, E, k) ==
    IF k = 0 THEN [h |-> <<>>, no |-> None]
    ELSE LET a == ArvoreDe(R, E, k - 1)
         IN  _inserir_recursivo(a.h, R, a.no, E[k], k - 1)

\* Insertions, removals and clearing of one tree.
Next ==
    \/ \E i \in DOMAIN edl : Cabe("abb", edl[i]) /\ Inserir("abb", edl[i], i - 1)
    \/ \E c \in CPFS : Remover("abb", c)
    \/ Limpar("abb")

Spec == Init /\ [][Next]_vars

\* The trees grown from the five CPFs 50, 30, 70, 20, 40, in any order.
InitLargura == InitCom(ExemploCpfs)

NextLargura ==
    \/ \E i \in DOMAIN edl : Inserir("abb", edl[i], i - 1)
    \/ Limpar("abb")

SpecLargura == InitLargura /\ [][NextLargura]_vars

\* Lookups: a list of two records, a tree whose nodes carry any position, the
\* external store marking records deleted.
CpfsConsulta == SubSeq(ExemploCpfs, 1, 2)

InitConsulta ==
    /\ regs = [i \in DOMAIN CpfsConsulta |->
                  Registro(CpfsConsulta[i],
                           IF i = 1 THEN "Lucas" ELSE "Ana", "2005-07-10")]
    /\ edl = [i \in DOMAIN CpfsConsulta |-> i]
    /\ nos = <<>>
    /\ raiz = [t \in {"abb"} |-> None]
    /\ hist = [t \in {"abb"} |-> <<>>]
    /\ saida = <<>>

\* The CPFs looked up: those of the list and one that is never inserted.
CpfsProcurados == Elems(CpfsConsulta) \cup {ExemploCpfs[3]}

NextConsulta ==
    \/ \E r \in DOMAIN regs, p \in Posicoes : Inserir("abb", r, p)
    \/ \E c \in CpfsProcurados : Remover("abb", c)
    \/ \E r \in DOMAIN regs : Apagar(r)
    \/ \E c \in CpfsProcurados : Consultar("abb", c)

SpecConsulta == InitConsulta /\ [][NextConsulta]_vars

\* A tree and its copy: the caller inserts records of its list into either
\* tree, removes keys, clears, releases the copy and copies again, and renames any
\* live record.
NextCopia ==
    \/ \E t \in DOMAIN raiz, i \in DOMAIN edl : Inserir(t, edl[i], i - 1)
    \/ \E t \in DOMAIN raiz, c \in Elems(CpfsConsulta) : Remover(t, c)
    \/ \E t \in DOMAIN raiz : Limpar(t)
    \/ Copiar
    \/ Descartar
    \/ \E r \in DOMAIN regs, n \in Nomes : MutarNome(r, n)

SpecCopia == InitConsulta /\ [][NextCopia]_vars

\* ------------------------------------------------------- derived notions
\* The CPF held by node n.
Chave(H, R, n) == R[H[n].registro].cpf

\* The CPFs held by the nodes below (and including) node no.
ChavesDe(H, R, no) == { Chave(H, R, n) : n \in NosDe(H, no) }

\* The CPFs of the records of a traversal.
Cpfs(R, s) == [i \in DOMAIN s |-> R[s[i]].cpf]

\* Sequence s without its elements equal to x.
Sem(s, x) == SelectSeq(s, LAMBDA y : y # x)

\* Whether node n has both children.
DoisFilhos(H, n) == H[n].esq # None /\ H[n].dir # None

\* ------------------------------------------------------------------- C1
\* C1: after any sequence of inserir and remover calls on an empty tree, every
\* node has only smaller keys in its left subtree and only greater keys in its
\* right subtree, and no two nodes hold the same key.
C1_InvarianteABB ==
    LET N == NosDe(nos, raiz["abb"])
    IN  /\ \A n \in N :
              /\ \A m \in NosDe(nos, nos[n].esq) :
                     StrLt(Chave(nos, regs, m), Chave(nos, regs, n))
              /\ \A m \in NosDe(nos, nos[n].dir) :
                     StrLt(Chave(nos, regs, n), Chave(nos, regs, m))
        /\ \A n, m \in N : n # m => Chave(nos, regs, n) # Chave(nos, regs, m)

\* A tree of MaxNos nodes in which a node with two children holds a payload
\* other than the one it was created with (Novo creates a node at the address
\* of its record): a removal by successor promotion has taken place.
C1_Testemunha ==
    /\ Tamanho("abb") = MaxNos
    /\ \E n \in NosDe(nos, raiz["abb"]) :
          DoisFilhos(nos, n) /\ nos[n].registro # n

\* ------------------------------------------------------------------- C2
\* C2: the in-order traversal yields records whose keys are strictly
\* ascending, and the keys it yields are exactly those inserted and not
\* removed afterwards, one record for each of them.
C2_InOrdem ==
    LET s == Cpfs(regs, percurso_in_ordem(nos, raiz["abb"]))
    IN  /\ \A i \in 1..(Len(s) - 1) : StrLt(s[i], s[i + 1])
        /\ Elems(s) = DOMAIN hist["abb"]
        /\ Len(s) = Cardinality(DOMAIN hist["abb"])

\* A tree of three keys or more from which a key inserted earlier is missing
\* after a successor promotion.
C2_Testemunha ==
    /\ Len(percurso_in_ordem(nos, raiz["abb"])) >= 3
    /\ CpfUniverso[1] \notin DOMAIN hist["abb"]
    /\ \E n \in NosDe(nos, raiz["abb"]) : nos[n].registro # n

\* ------------------------------------------------------------------- C3
\* The record that follows record r in the in-order traversal of tree t: the
\* record of the in-order successor.
Seguinte(t, r) ==
    LET s == percurso_in_ordem(nos, raiz[t])
        i == CHOOSE j \in DOMAIN s : s[j] = r
    IN  s[i + 1]

\* Sequence s without rs, and with rs where rk was.
Promovido(s, rk, rs) ==
    LET u == Sem(s, rs) IN [i \in DOMAIN u |-> IF u[i] = rk THEN rs ELSE u[i]]

\* Traversal depois has exactly the records of antes but rk.
UmAMenos(antes, depois, rk) ==
    /\ Len(depois) = Len(antes) - 1
    /\ Elems(depois) = Elems(antes) \ {rk}
    /\ rk \in Elems(antes)

\* The claim as stated: removing a present key takes exactly its record out
\* of each of the four traversals, and the pre-order, in-order and post-order
\* traversals keep the relative order of the remaining records.
C3_Original ==
    [][\A c \in CPFS :
          LET n == buscar(nos, regs, raiz["abb"], c) IN
          (n # None /\ Remover("abb", c)) =>
              LET rk == nos[n].registro IN
              /\ UmAMenos(percurso_largura(nos, raiz["abb"]),
                          percurso_largura(nos', raiz'["abb"]), rk)
              /\ percurso_pre_ordem(nos', raiz'["abb"])
                     = Sem(percurso_pre_ordem(nos, raiz["abb"]), rk)
              /\ percurso_in_ordem(nos', raiz'["abb"])
                     = Sem(percurso_in_ordem(nos, raiz["abb"]), rk)
              /\ percurso_pos_ordem(nos', raiz'["abb"])
                     = Sem(percurso_pos_ordem(nos, raiz["abb"]), rk)]_vars

\* C3 (amended): removing a present key takes exactly its record out of each
\* of the four traversals; the in-order traversal keeps the order of the
\* remaining records; so do the pre-order and post-order traversals when the
\* removed node has at most one child, and when it has two the record of the
\* in-order successor moves to the place of the removed record, the others
\* keeping their order.
C3_Remocao ==
    [][\A c \in CPFS :
          LET n == buscar(nos, regs, raiz["abb"], c) IN
          (n # None /\ Remover("abb", c)) =>
              LET rk == nos[n].registro
                  esperado(s) == IF DoisFilhos(nos, n)
                                 THEN Promovido(s, rk, Seguinte("abb", rk))
                                 ELSE Sem(s, rk)
              IN
              /\ UmAMenos(percurso_largura(nos, raiz["abb"]),
                          percurso_largura(nos', raiz'["abb"]), rk)
              /\ UmAMenos(percurso_pre_ordem(nos, raiz["abb"]),
                          percurso_pre_ordem(nos', raiz'["abb"]), rk)
              /\ UmAMenos(percurso_pos_ordem(nos, raiz["abb"]),
                          percurso_pos_ordem(nos', raiz'["abb"]), rk)
              /\ percurso_in_ordem(nos', raiz'["abb"])
                     = Sem(percurso_in_ordem(nos, raiz["abb"]), rk)
              /\ percurso_pre_ordem(nos', raiz'["abb"])
                     = esperado(percurso_pre_ordem(nos, raiz["abb"]))
              /\ percurso_pos_ordem(nos', raiz'["abb"])
                     = esperado(percurso_pos_ordem(nos, raiz["abb"]))]_vars

\* A successor promotion has moved a record in front of one that preceded it:
\* the root, with a left child, holds a payload it was not created with.
C3_Testemunha ==
    /\ raiz["abb"] # None
    /\ nos[raiz["abb"]].esq # None
    /\ nos[raiz["abb"]].registro # raiz["abb"]
    /\ Cardinality(DOMAIN hist["abb"]) = MaxNos - 1

\* ------------------------------------------------------------------- C5
\* C5: inserir with a key already in the tree changes nothing: neither the
\* shape nor the Registro and position of any node, whatever record object and
\* position the call carries.
C5_InserirDuplicado ==
    [][\/ UNCHANGED <<nos, raiz, regs>>
       \/ \A i \in DOMAIN edl :
              ~(/\ buscar(nos, regs, raiz["abb"], regs[edl[i]].cpf) # None
                /\ Inserir("abb", edl[i], i - 1))]_vars

\* The tree holds the first CPF through one of the caller's two records of
\* that CPF, so the other one is a duplicate with another name and position.
C5_Testemunha ==
    \E n \in NosDe(nos, raiz["abb"]) :
        /\ nos[n].registro = Len(edl)
        /\ nos[n].posicao = Len(edl) - 1
        /\ regs[1].cpf = regs[Len(edl)].cpf
        /\ regs[1].nome # regs[Len(edl)].nome

\* ------------------------------------------------------------------- C6
\* C6: remover with a key that is not in the tree, the empty tree included,
\* leaves the tree as it was: same shape, same Registro and position in every
\* node.
C6_RemoverAusente ==
    [][\/ UNCHANGED <<nos, raiz, regs>>
       \/ \A c \in CPFS :
              ~(c \notin ChavesDe(nos, regs, raiz["abb"]) /\ Remover("abb", c))]_vars

\* A tree of two levels or more that lacks one of the caller's CPFs which is
\* neither its smallest nor its greatest key.
C6_Testemunha ==
    /\ Tamanho("abb") >= 3
    /\ \E c \in CPFS \ ChavesDe(nos, regs, raiz["abb"]) :
          /\ \E d \in ChavesDe(nos, regs, raiz["abb"]) : StrLt(d, c)
          /\ \E d \in ChavesDe(nos, regs, raiz["abb"]) : StrLt(c, d)

\* ------------------------------------------------------------------- C9
\* The node of tree t whose key is the smallest one greater than the key of
\* node n.
NoSeguinte(t, n) ==
    CHOOSE m \in NosDe(nos, raiz[t]) : nos[m].registro = Seguinte(t, nos[n].registro)

\* Removing the key of a node n with two children keeps n where it is, with
\* its left child, gives it the Registro and the position of the smallest key
\* of its right subtree, and removes the node that held them.
C9_Promocao ==
    \A c \in CPFS :
        LET n == buscar(nos, regs, raiz["abb"], c) IN
        (n # None /\ DoisFilhos(nos, n) /\ Remover("abb", c)) =>
            LET m == NoSeguinte("abb", n) IN
            /\ m \in NosDe(nos, nos[n].dir)
            /\ raiz' = raiz
            /\ n \in DOMAIN nos'
            /\ nos'[n].registro = nos[m].registro
            /\ nos'[n].posicao = nos[m].posicao
            /\ nos'[n].esq = nos[n].esq
            /\ m \notin NosDe(nos', raiz'["abb"])
            /\ \A x \in DOMAIN nos \ NosDe(nos, nos[n].dir) :
                   x # n => (x \in DOMAIN nos' /\ nos'[x] = nos[x])

\* search(k) of every key k in the tree returns a node whose position is the
\* one passed to the insert call that added k.
C9_Posicoes ==
    \A c \in DOMAIN hist["abb"] :
        LET n == buscar(nos, regs, raiz["abb"], c)
        IN  n # None /\ nos[n].posicao = hist["abb"][c]

\* C9: removal of a key whose node has two children keeps the node in place
\* and overwrites its payload with the Registro and the position of the
\* smallest key of its right subtree, whose node is removed; and after any
\* sequence of inserir and remover calls, buscar(k) of every key k of the tree
\* returns a node holding the position passed to the insert that added k.
C9_PromocaoEPosicoes == []C9_Posicoes /\ [][C9_Promocao]_vars

\* A node holds a payload it was not created with, in a tree that also holds
\* the first CPF at the position of the caller's second record of it.
C9_Testemunha ==
    /\ \E n \in NosDe(nos, raiz["abb"]) :
          nos[n].registro # n /\ nos[n].posicao = nos[n].registro - 1
    /\ CpfUniverso[1] \in DOMAIN hist["abb"]
    /\ hist["abb"][CpfUniverso[1]] = Len(edl) - 1

\* ------------------------------------------------------------------- C8
\* The number of links from node no down to node alvo.
RECURSIVE Profundidade(_, _, _)
Profundidade(H, no, alvo) ==
    IF no = alvo THEN 0
    ELSE IF alvo \in NosDe(H, H[no].esq)
    THEN 1 + Profundidade(H, H[no].esq, alvo)
    ELSE 1 + Profundidade(H, H[no].dir, alvo)

\* Node a lies to the left of node b: some node has a in its left subtree and
\* b in its right subtree.
AEsquerda(H, rz, a, b) ==
    \E x \in NosDe(H, rz) :
        a \in NosDe(H, H[x].esq) /\ b \in NosDe(H, H[x].dir)

\* The breadth-first traversal of tree t yields the record of every node
\* once, by non-decreasing depth and from left to right within a depth.
PorNiveis(t) ==
    LET s == percurso_largura(nos, raiz[t])
        N == NosDe(nos, raiz[t])
        noDe(r) == CHOOSE n \in N : nos[n].registro = r
    IN  /\ Len(s) = Cardinality(N)
        /\ Elems(s) = { nos[n].registro : n \in N }
        /\ \A i, j \in DOMAIN s :
              i < j =>
                  LET a == noDe(s[i])
                      b == noDe(s[j])
                      pa == Profundidade(nos, raiz[t], a)
                      pb == Profundidade(nos, raiz[t], b)
                  IN  pa < pb \/ (pa = pb /\ AEsquerda(nos, raiz[t], a, b))

\* The tree is the one the insertions 50, 30, 70, 20, 40, in this order, build.
ExemploConstruido ==
    LET a == ArvoreDe(regs, edl, Len(ExemploCpfs))
    IN  nos = a.h /\ raiz["abb"] = a.no

\* C8: the breadth-first traversal of any reachable tree yields every node's
\* record exactly once, by non-decreasing depth and left to right within each
\* depth (nothing for the empty tree); for the keys inserted in the order
\* 50, 30, 70, 20, 40 it yields 50, 30, 70, 20, 40.
C8_Largura ==
    /\ PorNiveis("abb")
    /\ raiz["abb"] = None => percurso_largura(nos, raiz["abb"]) = <<>>
    /\ ExemploConstruido =>
           Cpfs(regs, percurso_largura(nos, raiz["abb"])) = ExemploCpfs

\* The tree of the example has been built: three levels, two nodes on each of
\* the lower two.
C8_Testemunha ==
    /\ ExemploConstruido
    /\ Len(percurso_largura(nos, raiz["abb"])) = Len(ExemploCpfs)
    /\ DoisFilhos(nos, raiz["abb"])
    /\ DoisFilhos(nos, nos[raiz["abb"]].esq)

\* ------------------------------------------------------------------- C7
\* The node of tree t that holds CPF c.
NoCom(t, c) == CHOOSE n \in NosDe(nos, raiz[t]) : Chave(nos, regs, n) = c

\* The claim as stated: a lookup prints one of three things, "not found"
\* exactly when the key is not in the tree, "deleted" exactly when the record
\* at the node's position in the list has its deletion flag set, otherwise
\* "found" with that record; and it changes neither tree nor list.
C7_Original ==
    [][\A c \in CpfsProcurados :
          Consultar("abb", c) =>
              /\ UNCHANGED <<regs, nos, raiz, edl>>
              /\ saida'[1] \in {"Registro não encontrado.", "Registro apagado.",
                                "Registro encontrado:"}
              /\ saida'[1] = "Registro não encontrado." <=> c \notin DOMAIN hist["abb"]
              /\ c \in DOMAIN hist["abb"] =>
                     LET r == ItemDe(edl, nos[NoCom("abb", c)].posicao)
                     IN  IF regs[r].deletado
                         THEN saida' = <<"Registro apagado.">>
                         ELSE saida' = <<"Registro encontrado:", RegStr(regs[r])>>]_vars

\* C7 (amended): a lookup prints "not found" exactly when the key is not in
\* the tree (never inserted, or removed since); when the key is in the tree
\* and the position of its node is an index of the list (a negative one
\* counting from the end), it prints "deleted" exactly when the record at that
\* index has its deletion flag set and otherwise "found" with that record;
\* when the position is no index of the list the lookup ends with an
\* IndexError.  It changes neither the tree nor the list.
C7_Consulta ==
    [][\A c \in CpfsProcurados :
          Consultar("abb", c) =>
              /\ UNCHANGED <<regs, nos, raiz, edl>>
              /\ saida'[1] = "Registro não encontrado." <=> c \notin DOMAIN hist["abb"]
              /\ c \in DOMAIN hist["abb"] =>
                     LET p == nos[NoCom("abb", c)].posicao IN
                     IF p < 0 - Len(edl) \/ p >= Len(edl)
                     THEN saida' = <<"IndexError">>
                     ELSE LET r == IF p >= 0 THEN edl[p + 1] ELSE edl[Len(edl) + p + 1]
                          IN  IF regs[r].deletado
                              THEN saida' = <<"Registro apagado.">>
                              ELSE saida' = <<"Registro encontrado:", RegStr(regs[r])>>]_vars

\* A lookup has reported a deleted record for a key whose node holds a record
\* that is not deleted: the flag was read at the node's position in the list.
C7_Testemunha ==
    /\ saida = <<"Registro apagado.">>
    /\ \E n \in NosDe(nos, raiz["abb"]) :
          /\ ~regs[nos[n].registro].deletado
          /\ IndiceValido(edl, nos[n].posicao)
          /\ regs[ItemDe(edl, nos[n].posicao)].deletado
    /\ \A n \in NosDe(nos, raiz["abb"]) :
          regs[nos[n].registro].deletado => ~IndiceValido(edl, nos[n].posicao)

\* ------------------------------------------------------------------- C4
\* What the tree below node no holds: its shape and, for every node, the
\* fields of its record and its position.  All four traversals, and the fields
\* of the records they yield, are functions of it.
RECURSIVE Conteudo(_, _, _)
Conteudo(H, R, no) ==
    IF no = None THEN <<>>
    ELSE [registro |-> R[H[no].registro], posicao |-> H[no].posicao,
          esq |-> Conteudo(H, R, H[no].esq), dir |-> Conteudo(H, R, H[no].dir)]

\* The Registro objects the nodes below node no hold.
RegsDe(H, no) == { H[n].registro : n \in NosDe(H, no) }

OutraArvore(t) == IF t = "abb" THEN "copia" ELSE "abb"

\* The two trees never have a node in common.
C4_SemNosComuns ==
    "copia" \in DOMAIN raiz =>
        NosDe(nos, raiz["abb"]) \cap NosDe(nos, raiz["copia"]) = {}

\* copiar() leaves the original as it was and returns a tree with the same
\* shape, record fields and positions that has no Registro in common with it.
C4_AoCopiar ==
    Copiar =>
        /\ Conteudo(nos', regs', raiz'["copia"]) = Conteudo(nos, regs, raiz["abb"])
        /\ Conteudo(nos', regs', raiz'["abb"]) = Conteudo(nos, regs, raiz["abb"])
        /\ RegsDe(nos', raiz'["abb"]) \cap RegsDe(nos', raiz'["copia"]) = {}

\* After the copy, an insertion, a removal, a clearing of tree t, or the
\* renaming of a record tree t holds, leaves the other tree as it was.
C4_Depois ==
    ("copia" \in DOMAIN raiz /\ "copia" \in DOMAIN raiz') =>
        \A t \in Arvores :
            LET u == OutraArvore(t)
                igual == Conteudo(nos', regs', raiz'[u]) = Conteudo(nos, regs, raiz[u])
            IN
            /\ \A i \in DOMAIN edl : Inserir(t, edl[i], i - 1) => igual
            /\ \A c \in Elems(CpfsConsulta) : Remover(t, c) => igual
            /\ Limpar(t) => igual
            /\ \A r \in RegsDe(nos, raiz[t]), n \in Nomes : MutarNome(r, n) => igual

\* C4, the claim as stated: copiar() returns a tree with the same shape, keys
\* and positions as the original that shares no node and no Registro with it;
\* after the copy, any insert, remove, clear or record field mutation applied
\* to one of the two trees leaves every traversal and every record field of
\* the other unchanged.  The code violates it: inserir keeps the caller's
\* object, so an object the caller inserts into both trees after the copy is
\* one Registro of both, and renaming it in one tree renames it in the other.
C4_Original ==
    []C4_SemNosComuns /\ [][C4_AoCopiar /\ C4_Depois]_vars

\* ------------------------------------------------------------------ C10
\* C10, the claim as stated: the Registro a node holds is not shared with the
\* caller or with the external list, so a later change of the name of a record
\* of the caller changes neither the records a tree holds nor what its
\* traversals yield.  The code violates it: NoABB.__init__ keeps the reference
\* it is given, and after inserir the caller's object is the node's Registro.
C10_Original ==
    [][\A r \in Elems(edl), n \in Nomes :
          MutarNome(r, n) =>
              \A t \in DOMAIN raiz :
                  Conteudo(nos', regs', raiz'[t]) = Conteudo(nos, regs, raiz[t])]_vars

====
